---- MODULE Spec2Model ----
(***************************************************************************)
(* Model of src/main.py: _convert_data_to_html_bookmarks, the conversion   *)
(* of Pocket CSV exports into one Netscape bookmark document.              *)
(*                                                                         *)
(* A text is a sequence of one-character strings.  The rendered document   *)
(* is a sequence of tokens: the characters of the interpolated fields, the *)
(* newline "\n" as a token of its own, and the literal pieces of the       *)
(* template between two newlines or two interpolations, each kept whole.   *)
(* The files are the environment: what a path names is drawn when the loop *)
(* opens it.  A CSV file is given by the rows csv.reader yields for its    *)
(* lines (line 58), after the optional byte-order mark was dropped (lines  *)
(* 55-56): the first row is the header.                                    *)
(***************************************************************************)
EXTENDS Integers, Sequences, FiniteSets, TLC

\* ------------------------------------------------------------- bounds ----
MaxFiles == 2   \* paths in csv_filepaths
MaxRows  == 3   \* data lines (after the header) over all files of a run

\* ------------------------------------------------------- text helpers ----
RECURSIVE Flatten(_)
Flatten(ss) == IF ss = <<>> THEN <<>> ELSE Head(ss) \o Flatten(Tail(ss))

Range(s) == {s[k] : k \in 1..Len(s)}

\* Python's None, the restval DictReader gives a key the row is too short for.
None == <<"<None>">>

\* str(None), as jinja2 and markupsafe print the object.
Str(v) == IF v = None THEN <<"N", "o", "n", "e">> ELSE v

Whitespace == {" ", "\t"}

UpperChars == <<"A","B","C","D","E","F","G","H","I","J","K","L","M",
                "N","O","P","Q","R","S","T","U","V","W","X","Y","Z">>
LowerChars == <<"a","b","c","d","e","f","g","h","i","j","k","l","m",
                "n","o","p","q","r","s","t","u","v","w","x","y","z">>

LowerChar(c) ==
    IF \E k \in 1..Len(UpperChars) : UpperChars[k] = c
    THEN LowerChars[CHOOSE k \in 1..Len(UpperChars) : UpperChars[k] = c]
    ELSE c

\* str.lower()
Lower(s) == [k \in 1..Len(s) |-> LowerChar(s[k])]

RECURSIVE LStrip(_)
LStrip(s) == IF s # <<>> /\ Head(s) \in Whitespace THEN LStrip(Tail(s)) ELSE s

RECURSIVE RStrip(_)
RStrip(s) ==
    IF s # <<>> /\ s[Len(s)] \in Whitespace
    THEN RStrip(SubSeq(s, 1, Len(s) - 1))
    ELSE s

\* A strip that trims the left end only.
StripLeft(s) == LStrip(s)

\* str.strip()
Strip(s) == RStrip(LStrip(s))

ARCHIVE == <<"a", "r", "c", "h", "i", "v", "e">>

\* ------------------------------------------------------------ escaping ---
\* markupsafe.escape on one character: what |e and the autoescape apply.
EscapeChar(c) ==
    CASE c = "&"  -> <<"&", "a", "m", "p", ";">>
      [] c = "<"  -> <<"&", "l", "t", ";">>
      [] c = ">"  -> <<"&", "g", "t", ";">>
      [] c = "'"  -> <<"&", "#", "3", "9", ";">>
      [] c = "\"" -> <<"&", "#", "3", "4", ";">>
      [] OTHER    -> <<c>>

Escape(s) == Flatten([k \in 1..Len(s) |-> EscapeChar(s[k])])

\* ------------------------------------------------------------ template ---
NL == "\n"

\* Lines 12-17: the text before {% for %}.
Preamble ==
    << "<!DOCTYPE NETSCAPE-Bookmark-file-1>", NL,
       "<!-- This is an automatically generated file. -->", NL,
       "<META HTTP-EQUIV=\"Content-Type\" CONTENT=\"text/html; charset=UTF-8\">", NL,
       "<TITLE>Bookmarks</TITLE>", NL,
       "<H1>Pocket Non-Archived Bookmarks</H1>", NL,
       "<DL><p>", NL >>

HrefOpen  == "    <DT><A HREF=\""
DateOpen  == "\" ADD_DATE=\""
TagsOpen  == "\" TAGS=\""
ToRead    == " TOREAD=\"yes\""
AnchorEnd == "</A>"

\* A loop body in which |e and the autoescape both escape a field.
ForBodyEscapesTwice(bookmark) ==
    <<NL, HrefOpen>> \o Escape(Escape(Str(bookmark.url)))
      \o <<DateOpen>> \o Escape(Str(bookmark.add_date))
      \o <<TagsOpen>> \o Escape(Escape(Str(bookmark.tags)))
      \o <<"\"">> \o (IF bookmark.toread THEN <<ToRead>> ELSE <<>>)
      \o <<">">> \o Escape(Escape(Str(bookmark.title)))
      \o <<AnchorEnd, NL>>

\* Lines 18-20: the body of the loop, from the newline that ends the {% for %}
\* line to the newline that ends the <DT> line (jinja2 keeps both: trim_blocks
\* is off).
ForBody(bookmark) ==
    <<NL, HrefOpen>> \o Escape(Str(bookmark.url))
      \o <<DateOpen>> \o Escape(Str(bookmark.add_date))
      \o <<TagsOpen>> \o Escape(Str(bookmark.tags))
      \o <<"\"">> \o (IF bookmark.toread THEN <<ToRead>> ELSE <<>>)
      \o <<">">> \o Escape(Str(bookmark.title))
      \o <<AnchorEnd, NL>>

\* The text after {% endfor %} with the template's trailing newline kept.
EpilogueKeepsNewline == <<NL, "</DL><p>", NL>>

\* Lines 20-22: the text after {% endfor %}; jinja2 drops the template's one
\* trailing newline (keep_trailing_newline is off).
Epilogue == <<NL, "</DL><p>">>

\* template.render(bookmarks=...), lines 81-83.
Render(bookmarks) ==
    Preamble \o Flatten([k \in 1..Len(bookmarks) |-> ForBody(bookmarks[k])])
             \o Epilogue

\* ---------------------------------------------------------- csv reader ---
\* The dict DictReader builds of a row: zip(fieldnames, row), and restval
\* None for the names the row is too short for (values past the header go
\* under the key None, which the code never asks for).
RowDict(fieldnames, row) ==
    [name \in Range(fieldnames) |->
        LET k == CHOOSE k \in 1..Len(fieldnames) :
                    /\ fieldnames[k] = name
                    /\ \A m \in (k + 1)..Len(fieldnames) : fieldnames[m] # name
        IN  IF k <= Len(row) THEN row[k] ELSE None]

\* row.get(key, default)
Get(d, key, default) == IF key \in DOMAIN d THEN d[key] ELSE default

\* DictReader.__next__ skips the rows that are []: the index of the next row
\* of lines at or after j that is not blank, Len(lines) + 1 when there is none.
RECURSIVE NextRow(_, _)
NextRow(lines, j) ==
    IF j > Len(lines) THEN j
    ELSE IF lines[j] = <<>> THEN NextRow(lines, j + 1)
    ELSE j

\* Lines 67-73.
BookmarkItem(d) ==
    [ url      |-> Get(d, "url", <<>>),
      title    |-> Get(d, "title", <<>>),
      add_date |-> Get(d, "time_added", <<>>),
      tags     |-> Get(d, "tags", <<>>),
      toread   |-> TRUE ]

\* -------------------------------------------------------------- inputs ---
H1 == <<"title", "url", "time_added", "tags", "status">>
H2 == <<"status", "url", "title">>
Headers == {H1, H2}

Unread   == <<"u", "n", "r", "e", "a", "d">>
Archived == <<"a", "r", "c", "h", "i", "v", "e", "d">>

\* The data lines a file under header h may hold: a kept row whose fields
\* need escaping, an archived row, a row shorter than the header, a blank line.
RowsFor(h) ==
    IF h = H1
    THEN { << <<"<", "s", ">", "&", "\"", "'">>, <<"a", "&", "a", "m", "p", ";", "b">>,
              <<"1", "\"", "0">>, <<"x", ",", "'", "y">>, Unread >>,
           << <<"B">>, <<"b">>, <<"2", "0", "0">>, <<>>,
              <<" ", "A", "r", "c", "h", "i", "v", "e", "\t">> >>,
           << <<"C">>, <<"c">> >>,
           <<>> }
    ELSE { << Archived, <<"&", "l", "t">>, <<"x", ">", "'">> >>,
           << <<"A", "R", "C", "H", "I", "V", "E">>, <<"d">>, <<"D">> >>,
           << Unread, <<"e">> >>,
           <<>> }

RECURSIVE RowSeqs(_, _)
RowSeqs(h, n) ==
    IF n = 0 THEN {<<>>}
    ELSE LET shorter == RowSeqs(h, n - 1)
         IN  {<<r>> \o rs : r \in RowsFor(h), rs \in shorter}

Missing    == [kind |-> "missing", lines |-> <<>>]
Unreadable == [kind |-> "unreadable", lines |-> <<>>]
Csv(lines) == [kind |-> "csv", lines |-> lines]

\* The files with exactly n data lines.
FilesWith(n) ==
    UNION { {Csv(<<h>> \o rs) : rs \in RowSeqs(h, n)} : h \in Headers }
    \cup (IF n = 0 THEN {Missing, Unreadable, Csv(<<>>)} ELSE {})

\* Data lines of a file, and of a list of files.
DataLines(f) == IF f.lines = <<>> THEN 0 ELSE Len(f.lines) - 1

RECURSIVE TotalLines(_)
TotalLines(fs) == IF fs = <<>> THEN 0 ELSE DataLines(Head(fs)) + TotalLines(Tail(fs))

\* What the next path may name, the files before it being fs.
Available(fs) == UNION {FilesWith(k) : k \in 0..(MaxRows - TotalLines(fs))}

\* --------------------------------------------------------------- state ---
VARIABLES
    npaths,                  \* len(csv_filepaths), the paths of the argument
    csv_filepaths,           \* the files found at the paths opened so far, in order
    pc,                      \* "loop" | "rows" | "render" | "write" | "done"
    file,                    \* index of the path the for loop of line 50 is at
    line,                    \* rows of the current file csvreader has consumed
    processed_count,         \* line 40
    skipped_archived_count,  \* line 41
    bookmarks_data,          \* line 42
    errors,                  \* the red messages of lines 77, 79 and 89
    html_output,             \* line 81
    written,                 \* content of output_html_filepath
    result                   \* the returned tuple

vars == <<npaths, csv_filepaths, pc, file, line, processed_count, skipped_archived_count,
          bookmarks_data, errors, html_output, written, result>>

NoFile == <<"<no file>">>

Init ==
    /\ npaths \in 0..MaxFiles
    /\ csv_filepaths = <<>>
    /\ pc = "loop"
    /\ file = 1
    /\ line = 0
    /\ processed_count = 0
    /\ skipped_archived_count = 0
    /\ bookmarks_data = <<>>
    /\ errors = <<>>
    /\ html_output = <<>>
    /\ written = NoFile
    /\ result = <<>>

Current == csv_filepaths[file]

Error(kind, path) == [kind |-> kind, path |-> path]

\* A missing file that ends the loop over the paths.
OpenMissingAborts ==
    /\ pc = "loop" /\ file <= npaths
    /\ csv_filepaths' = Append(csv_filepaths, Missing)
    /\ errors' = Append(errors, Error("FileNotFoundError", file))
    /\ file' = npaths + 1
    /\ UNCHANGED <<npaths, pc, line, processed_count, skipped_archived_count,
                   bookmarks_data, html_output, written, result>>

\* Lines 50-53 and 76-77: open() raises FileNotFoundError.
OpenMissing ==
    /\ pc = "loop" /\ file <= npaths
    /\ csv_filepaths' = Append(csv_filepaths, Missing)
    /\ errors' = Append(errors, Error("FileNotFoundError", file))
    /\ file' = file + 1
    /\ UNCHANGED <<npaths, pc, line, processed_count, skipped_archived_count,
                   bookmarks_data, html_output, written, result>>

\* Lines 50-54 and 78-79: open() or read() raises another exception
\* (PermissionError, UnicodeDecodeError, ...).
OpenUnreadable ==
    /\ pc = "loop" /\ file <= npaths
    /\ csv_filepaths' = Append(csv_filepaths, Unreadable)
    /\ errors' = Append(errors, Error("Exception", file))
    /\ file' = file + 1
    /\ UNCHANGED <<npaths, pc, line, processed_count, skipped_archived_count,
                   bookmarks_data, html_output, written, result>>

\* Lines 53-58: the file is read and the reader made; the reader will take the
\* first row, if there is one, as the fieldnames.
OpenCsv ==
    /\ pc = "loop" /\ file <= npaths
    /\ \E f \in Available(csv_filepaths) :
          /\ f.kind = "csv"
          /\ csv_filepaths' = Append(csv_filepaths, f)
          /\ line' = IF f.lines = <<>> THEN 0 ELSE 1
    /\ pc' = "rows"
    /\ UNCHANGED <<npaths, file, processed_count, skipped_archived_count,
                   bookmarks_data, errors, html_output, written, result>>

fieldnames == Current.lines[1]

\* The dict the next iteration of line 60 binds row to.
NextDict == RowDict(fieldnames, Current.lines[NextRow(Current.lines, line + 1)])

HasNext == NextRow(Current.lines, line + 1) <= Len(Current.lines)

\* Line 60 when the reader is exhausted: the with block and the try end.
EndOfFile ==
    /\ pc = "rows" /\ ~HasNext
    /\ pc' = "loop"
    /\ file' = file + 1
    /\ UNCHANGED <<npaths, csv_filepaths, line, processed_count, skipped_archived_count,
                   bookmarks_data, errors, html_output, written, result>>

\* Line 61 on a row that is too short to hold a status: None has no strip, the
\* AttributeError leaves the loop and lines 78-79 report it.
RowRaises ==
    /\ pc = "rows" /\ HasNext
    /\ Get(NextDict, "status", <<>>) = None
    /\ errors' = Append(errors, Error("Exception", file))
    /\ pc' = "loop"
    /\ file' = file + 1
    /\ line' = NextRow(Current.lines, line + 1)
    /\ UNCHANGED <<npaths, csv_filepaths, processed_count, skipped_archived_count,
                   bookmarks_data, html_output, written, result>>

\* An archived row that is passed over without being counted.
RowArchivedUncounted ==
    /\ pc = "rows" /\ HasNext
    /\ Get(NextDict, "status", <<>>) # None
    /\ Lower(Strip(Get(NextDict, "status", <<>>))) = ARCHIVE
    /\ line' = NextRow(Current.lines, line + 1)
    /\ UNCHANGED <<npaths, csv_filepaths, pc, file, processed_count,
                   skipped_archived_count, bookmarks_data, errors, html_output,
                   written, result>>

\* Lines 61-65.
RowArchived ==
    /\ pc = "rows" /\ HasNext
    /\ Get(NextDict, "status", <<>>) # None
    /\ Lower(Strip(Get(NextDict, "status", <<>>))) = ARCHIVE
    /\ skipped_archived_count' = skipped_archived_count + 1
    /\ line' = NextRow(Current.lines, line + 1)
    /\ UNCHANGED <<npaths, csv_filepaths, pc, file, processed_count, bookmarks_data,
                   errors, html_output, written, result>>

\* A kept row put at the head of the list.
RowKeptPrepends ==
    /\ pc = "rows" /\ HasNext
    /\ Get(NextDict, "status", <<>>) # None
    /\ Lower(Strip(Get(NextDict, "status", <<>>))) # ARCHIVE
    /\ bookmarks_data' = <<BookmarkItem(NextDict)>> \o bookmarks_data
    /\ processed_count' = processed_count + 1
    /\ line' = NextRow(Current.lines, line + 1)
    /\ UNCHANGED <<npaths, csv_filepaths, pc, file, skipped_archived_count,
                   errors, html_output, written, result>>

\* A kept row appended without the counter moving.
RowKeptUncounted ==
    /\ pc = "rows" /\ HasNext
    /\ Get(NextDict, "status", <<>>) # None
    /\ Lower(Strip(Get(NextDict, "status", <<>>))) # ARCHIVE
    /\ bookmarks_data' = Append(bookmarks_data, BookmarkItem(NextDict))
    /\ line' = NextRow(Current.lines, line + 1)
    /\ UNCHANGED <<npaths, csv_filepaths, pc, file, processed_count,
                   skipped_archived_count, errors, html_output, written, result>>

\* Lines 61-63 and 67-75.
RowKept ==
    /\ pc = "rows" /\ HasNext
    /\ Get(NextDict, "status", <<>>) # None
    /\ Lower(Strip(Get(NextDict, "status", <<>>))) # ARCHIVE
    /\ bookmarks_data' = Append(bookmarks_data, BookmarkItem(NextDict))
    /\ processed_count' = processed_count + 1
    /\ line' = NextRow(Current.lines, line + 1)
    /\ UNCHANGED <<npaths, csv_filepaths, pc, file, skipped_archived_count,
                   errors, html_output, written, result>>

\* Lines 81-83, once the for loop of line 50 is over.
RenderStep ==
    /\ pc = "loop" /\ file > npaths
    /\ html_output' = Render(bookmarks_data)
    /\ pc' = "write"
    /\ UNCHANGED <<npaths, csv_filepaths, file, line, processed_count, skipped_archived_count,
                   bookmarks_data, errors, written, result>>

\* Lines 85-87 and 92.
WriteOk ==
    /\ pc = "write"
    /\ written' = html_output
    /\ result' = <<processed_count, skipped_archived_count>>
    /\ pc' = "done"
    /\ UNCHANGED <<npaths, csv_filepaths, file, line, processed_count, skipped_archived_count,
                   bookmarks_data, errors, html_output>>

\* A failed write that returns no count at all.
WriteFailsReturnsNothing ==
    /\ pc = "write"
    /\ errors' = Append(errors, Error("WriteError", 0))
    /\ result' = <<0, 0>>
    /\ pc' = "done"
    /\ UNCHANGED <<npaths, csv_filepaths, file, line, processed_count,
                   skipped_archived_count, bookmarks_data, html_output, written>>

\* Lines 85-90: open() or write() raises.
WriteFails ==
    /\ pc = "write"
    /\ errors' = Append(errors, Error("WriteError", 0))
    /\ result' = <<0, skipped_archived_count>>
    /\ pc' = "done"
    /\ UNCHANGED <<npaths, csv_filepaths, file, line, processed_count, skipped_archived_count,
                   bookmarks_data, html_output, written>>

Next ==
    \/ OpenMissing
    \/ OpenUnreadable
    \/ OpenCsv
    \/ EndOfFile
    \/ RowRaises
    \/ RowArchived
    \/ RowKept
    \/ RenderStep
    \/ WriteOk
    \/ WriteFails

Spec == Init /\ [][Next]_vars

\* ======================================================================
\* What the claims speak of, stated from the input and the output alone.
\* ======================================================================
RECURSIVE Sum(_)
Sum(ns) == IF ns = <<>> THEN 0 ELSE Head(ns) + Sum(Tail(ns))

IsCsv(f) == f.kind = "csv"
NotBlank(r) == r # <<>>

\* The data rows of a file: its lines after the header that are not blank.
DataRows(f) ==
    IF IsCsv(f) /\ f.lines # <<>> THEN SelectSeq(Tail(f.lines), NotBlank) ELSE <<>>

HeaderOf(f) == IF f.lines = <<>> THEN <<>> ELSE f.lines[1]

\* The value a row holds under a column: empty when the header has no such
\* column, None when the row ends before it.
Cell(header, row, name) ==
    IF \A k \in 1..Len(header) : header[k] # name THEN <<>>
    ELSE LET k == CHOOSE k \in 1..Len(header) :
                     /\ header[k] = name
                     /\ \A m \in (k + 1)..Len(header) : header[m] # name
         IN  IF k > Len(row) THEN None ELSE row[k]

ARCHIVE_UPPER == <<"A", "R", "C", "H", "I", "V", "E">>

\* s is "archive" in any letter case with whitespace around it.
IsArchiveStatus(s) ==
    /\ s # None
    /\ \E p \in 0..Len(s) :
          /\ Len(s) >= p + Len(ARCHIVE)
          /\ \A k \in 1..p : s[k] \in Whitespace
          /\ \A k \in 1..Len(ARCHIVE) : s[p + k] \in {ARCHIVE[k], ARCHIVE_UPPER[k]}
          /\ \A k \in (p + Len(ARCHIVE) + 1)..Len(s) : s[k] \in Whitespace

RowStatus(f, r) == Cell(HeaderOf(f), r, "status")

\* The row stops the file: it has no status to trim.
Breaks(f, r) == RowStatus(f, r) = None

\* The data rows of a file the loop gets through: those before the first
\* row that breaks.
Handled(f) ==
    LET rows == DataRows(f)
        stop == IF \E k \in 1..Len(rows) : Breaks(f, rows[k])
                THEN CHOOSE k \in 1..Len(rows) :
                        /\ Breaks(f, rows[k])
                        /\ \A m \in 1..(k - 1) : ~Breaks(f, rows[m])
                ELSE Len(rows) + 1
    IN  SubSeq(rows, 1, stop - 1)

FailsPartWay(f) == Len(Handled(f)) < Len(DataRows(f))

EntityOf(f, r) ==
    [ url      |-> Cell(HeaderOf(f), r, "url"),
      title    |-> Cell(HeaderOf(f), r, "title"),
      add_date |-> Cell(HeaderOf(f), r, "time_added"),
      tags     |-> Cell(HeaderOf(f), r, "tags"),
      toread   |-> TRUE ]

\* The entities and the skips a file contributes.
KeptOf(f) ==
    LET rows == Handled(f)
        Keep(r) == ~IsArchiveStatus(RowStatus(f, r))
        kept == SelectSeq(rows, Keep)
    IN  [k \in 1..Len(kept) |-> EntityOf(f, kept[k])]

SkippedOf(f) ==
    LET rows == Handled(f)
        Skip(r) == IsArchiveStatus(RowStatus(f, r))
    IN  Len(SelectSeq(rows, Skip))

EntitiesOf(fs) == Flatten([k \in 1..Len(fs) |-> KeptOf(fs[k])])
SkipsOf(fs) == Sum([k \in 1..Len(fs) |-> SkippedOf(fs[k])])

Done == pc = "done"
\* html_output holds the document; no later step changes it.
Rendered == pc = "write"
WriteFailed == Done /\ written = NoFile
WriteSucceeded == Done /\ written # NoFile

\* ---- the document, read back ----
\* First index at or after from where l holds token t, 0 when there is none.
IndexFrom(l, t, from) ==
    IF \E k \in from..Len(l) : l[k] = t
    THEN CHOOSE k \in from..Len(l) : l[k] = t /\ \A m \in from..(k - 1) : l[m] # t
    ELSE 0

\* The lines of a document: what stands between its newlines.
RECURSIVE SplitLines(_)
SplitLines(doc) ==
    LET k == IndexFrom(doc, NL, 1)
    IN  IF k = 0 THEN <<doc>>
        ELSE <<SubSeq(doc, 1, k - 1)>> \o SplitLines(SubSeq(doc, k + 1, Len(doc)))

PreambleLines ==
    << <<"<!DOCTYPE NETSCAPE-Bookmark-file-1>">>,
       <<"<!-- This is an automatically generated file. -->">>,
       <<"<META HTTP-EQUIV=\"Content-Type\" CONTENT=\"text/html; charset=UTF-8\">">>,
       <<"<TITLE>Bookmarks</TITLE>">>,
       <<"<H1>Pocket Non-Archived Bookmarks</H1>">>,
       <<"<DL><p>">> >>

ClosingLine == <<"</DL><p>">>

\* A line that is one <DT><A ...>title</A> entry.
IsEntryLine(l) ==
    /\ Len(l) >= 7
    /\ l[1] = HrefOpen
    /\ l[Len(l)] = AnchorEnd
    /\ \A k \in 2..Len(l) : l[k] # HrefOpen
    /\ IndexFrom(l, DateOpen, 2) # 0
    /\ IndexFrom(l, TagsOpen, IndexFrom(l, DateOpen, 2)) # 0
    /\ IndexFrom(l, "\"", IndexFrom(l, TagsOpen, 2)) # 0
    /\ IndexFrom(l, ">", IndexFrom(l, "\"", IndexFrom(l, TagsOpen, 2))) # 0

\* The rendered text of the four fields of an entry line, and whether the
\* TOREAD attribute is there.
Fields(l) ==
    LET d == IndexFrom(l, DateOpen, 2)
        t == IndexFrom(l, TagsOpen, d)
        q == IndexFrom(l, "\"", t)
        g == IndexFrom(l, ">", q)
    IN  [ url      |-> SubSeq(l, 2, d - 1),
          add_date |-> SubSeq(l, d + 1, t - 1),
          tags     |-> SubSeq(l, t + 1, q - 1),
          title    |-> SubSeq(l, g + 1, Len(l) - 1),
          toread   |-> SubSeq(l, q + 1, g - 1) = <<ToRead>> ]

EntryLines(doc) == SelectSeq(SplitLines(doc), IsEntryLine)

\* ---- html.unescape, as CPython's html/__init__.py computes it, on the
\* references a text over the model's characters can hold (decimal and
\* named; the model's texts hold no "&#x").
Digits == <<"0", "1", "2", "3", "4", "5", "6", "7", "8", "9">>
IsDigit(c) == \E k \in 1..Len(Digits) : Digits[k] = c
DigitValue(c) == (CHOOSE k \in 1..Len(Digits) : Digits[k] = c) - 1

RECURSIVE Number(_)
Number(ds) ==
    IF ds = <<>> THEN 0 ELSE 10 * Number(SubSeq(ds, 1, Len(ds) - 1)) + DigitValue(ds[Len(ds)])

\* chr() on the code points the model's characters have.
Chr(n) ==
    CASE n = 34 -> "\"" [] n = 38 -> "&" [] n = 39 -> "'"
      [] n = 60 -> "<" [] n = 62 -> ">" [] OTHER -> "<chr>"

\* html.entities.html5, the names over the model's letters.
Html5 ==
    { << <<"a", "m", "p", ";">>, "&" >>, << <<"a", "m", "p">>, "&" >>,
      << <<"l", "t", ";">>, "<" >>,      << <<"l", "t">>, "<" >>,
      << <<"g", "t", ";">>, ">" >>,      << <<"g", "t">>, ">" >>,
      << <<"q", "u", "o", "t", ";">>, "\"" >>, << <<"q", "u", "o", "t">>, "\"" >>,
      << <<"a", "p", "o", "s", ";">>, "'" >> }
IsName(n) == \E e \in Html5 : e[1] = n
NameValue(n) == (CHOOSE e \in Html5 : e[1] = n)[2]

NameStop == {"\t", "\n", " ", "<", "&", "#", ";"}

\* Length of the longest prefix of t, of at most cap tokens, whose tokens all
\* satisfy: are digits (digits = TRUE), are no NameStop (digits = FALSE).
RECURSIVE Run(_, _, _)
Run(t, digits, cap) ==
    IF t = <<>> \/ cap = 0 THEN 0
    ELSE IF (IF digits THEN IsDigit(Head(t)) ELSE Head(t) \notin NameStop)
         THEN 1 + Run(Tail(t), digits, cap - 1)
         ELSE 0

\* Length of the reference the regular expression _charref matches at the
\* start of t, the text after an "&"; 0 when it matches none.
RefLength(t) ==
    IF t = <<>> THEN 0
    ELSE IF Head(t) = "#"
    THEN LET n == Run(Tail(t), TRUE, Len(t))
         IN  IF n = 0 THEN 0
             ELSE IF Len(t) > n + 1 /\ t[n + 2] = ";" THEN n + 2 ELSE n + 1
    ELSE LET n == Run(t, FALSE, 32)
         IN  IF n = 0 THEN 0
             ELSE IF Len(t) > n /\ t[n + 1] = ";" THEN n + 1 ELSE n

\* _replace_charref
ReplaceCharref(g) ==
    IF Head(g) = "#"
    THEN LET ds == SelectSeq(Tail(g), IsDigit) IN <<Chr(Number(ds))>>
    ELSE IF IsName(g) THEN <<NameValue(g)>>
    ELSE IF \E x \in 2..(Len(g) - 1) : IsName(SubSeq(g, 1, x))
    THEN LET x == CHOOSE x \in 2..(Len(g) - 1) :
                     /\ IsName(SubSeq(g, 1, x))
                     /\ \A y \in (x + 1)..(Len(g) - 1) : ~IsName(SubSeq(g, 1, y))
         IN  <<NameValue(SubSeq(g, 1, x))>> \o SubSeq(g, x + 1, Len(g))
    ELSE <<"&">> \o g

RECURSIVE Unescape(_)
Unescape(s) ==
    IF s = <<>> THEN <<>>
    ELSE IF Head(s) # "&" THEN <<Head(s)>> \o Unescape(Tail(s))
    ELSE LET n == RefLength(Tail(s))
         IN  IF n = 0 THEN <<"&">> \o Unescape(Tail(s))
             ELSE ReplaceCharref(SubSeq(s, 2, n + 1))
                    \o Unescape(SubSeq(s, n + 2, Len(s)))


\* ======================================================================
\* The claims.
\* ======================================================================
TextFields == {"url", "title", "add_date", "tags"}

\* The files processed to their end: a file that fails part-way is not one.
WholeFiles == SelectSeq(csv_filepaths, LAMBDA f : ~FailsPartWay(f))

\* The data rows of the files that could be read and processed.
TotalDataRows == Sum([k \in 1..Len(WholeFiles) |-> Len(DataRows(WholeFiles[k]))])

\* The data rows the loop got through: in a file that fails part-way, those
\* before the failing row.
HandledRows == Sum([k \in 1..Len(csv_filepaths) |-> Len(Handled(csv_filepaths[k]))])

\* C1 as stated: whatever the outcome of the run, the two returned counts sum
\* to the number of data rows of the input files that could be read.
C1_CountsSumToDataRows ==
    Done => result[1] + result[2] = TotalDataRows

\* C1 amended: the two counters sum to the number of data rows the loop got
\* through, which in a file that fails part-way are the rows before the
\* failing one; the returned counts sum to that number when the document is
\* written, and to the skipped count alone when the write fails.
C1_CountsSumToHandledRows ==
    Done =>
        LET handled == HandledRows
        IN  /\ processed_count + skipped_archived_count = handled
            /\ WriteSucceeded => result[1] + result[2] = handled
            /\ WriteFailed => result[1] + result[2] = handled - Len(bookmarks_data)

C1_Witness ==
    /\ WriteSucceeded
    /\ result = <<1, 1>>
    /\ HandledRows = 2
    /\ \E k \in 1..Len(csv_filepaths) : FailsPartWay(csv_filepaths[k])

\* C2 as stated: when the write fails, the returned counts are still the
\* processed count and the skipped count that extraction computed.
C2_CountsSurviveWriteFailure ==
    WriteFailed => result = <<processed_count, skipped_archived_count>>

\* C2 amended: when the write fails, the failure is reported, the returned
\* processed count is 0 and the returned skipped count is the one extraction
\* computed; the counters themselves keep their extraction values.
C2_WriteFailureReturnsZeroAndSkips ==
    WriteFailed =>
        /\ errors[Len(errors)] = Error("WriteError", 0)
        /\ result = <<0, skipped_archived_count>>
        /\ skipped_archived_count = SkipsOf(csv_filepaths)
        /\ processed_count = Len(EntitiesOf(csv_filepaths))

C2_Witness ==
    /\ WriteFailed
    /\ processed_count = 2
    /\ result = <<0, 1>>

\* C3: a file whose processing fails part-way contributes no entity and no
\* increment of either counter, and the run goes on with the next file.
C3_AllOrNothingPerFile ==
    Done => /\ Len(csv_filepaths) = npaths
            /\ bookmarks_data = EntitiesOf(WholeFiles)
            /\ processed_count = Len(EntitiesOf(WholeFiles))
            /\ skipped_archived_count = SkipsOf(WholeFiles)

\* The input list without the paths that could not be opened or read.
ReadableFiles == SelectSeq(csv_filepaths, IsCsv)

\* C4: a path that does not exist or cannot be read is reported, adds no
\* entity and nothing to either counter, and leaves the contribution of the
\* other files what it is in the run without that path, wherever it stands
\* in the list; every path of the list is visited.
C4_UnreadablePathContributesNothing ==
    Done => /\ Len(csv_filepaths) = npaths
            /\ bookmarks_data = EntitiesOf(ReadableFiles)
            /\ processed_count = Len(bookmarks_data)
            /\ skipped_archived_count = SkipsOf(ReadableFiles)
            /\ \A k \in 1..Len(csv_filepaths) :
                  /\ csv_filepaths[k].kind = "missing"
                        => Error("FileNotFoundError", k) \in Range(errors)
                  /\ csv_filepaths[k].kind = "unreadable"
                        => Error("Exception", k) \in Range(errors)

C4_Witness ==
    /\ Done
    /\ Len(csv_filepaths) = 2
    /\ csv_filepaths[1].kind = "missing"
    /\ IsCsv(csv_filepaths[2])
    /\ processed_count = 1
    /\ skipped_archived_count = 1

\* The row the loop of line 60 takes next.
AtRow == pc = "rows" /\ HasNext
ThisRow == Current.lines[NextRow(Current.lines, line + 1)]

C6_MissingFieldsAreEmpty ==
    /\ \A k \in 1..Len(bookmarks_data) : \A x \in TextFields : bookmarks_data[k][x] # None
    /\ \A e \in Range(errors) :
          e.kind = "Exception" => csv_filepaths[e.path].kind = "unreadable"

\* The places <<file, line>> of the rows that became entities.
KeptPlaces ==
    { <<i, j>> \in (1..Len(csv_filepaths)) \X (2..(MaxRows + 1)) :
        LET f == csv_filepaths[i]
        IN  /\ IsCsv(f)
            /\ j <= Len(f.lines)
            /\ f.lines[j] # <<>>
            /\ \A m \in 2..j : ~Breaks(f, f.lines[m]) \/ f.lines[m] = <<>>
            /\ ~IsArchiveStatus(RowStatus(f, f.lines[j])) }

Before(p, q) == p[1] < q[1] \/ (p[1] = q[1] /\ p[2] < q[2])

\* C7: the entities, and the entry lines of the document, stand in input
\* order: by file in argument order, within a file by row, one for every
\* kept row, duplicates included.
C7_InputOrder ==
    Rendered =>
        LET places == KeptPlaces
            entries == EntryLines(html_output)
            rank(p) == 1 + Cardinality({q \in places : Before(q, p)})
        IN  /\ Len(bookmarks_data) = Cardinality(places)
            /\ Len(entries) = Cardinality(places)
            /\ \A p \in places :
                  LET f == csv_filepaths[p[1]]
                      e == EntityOf(f, f.lines[p[2]])
                      l == Fields(entries[rank(p)])
                  IN  /\ bookmarks_data[rank(p)] = e
                      /\ \A x \in TextFields : Unescape(l[x]) = Str(e[x])

C7_Witness ==
    /\ Done
    /\ Len(csv_filepaths) = 2
    /\ Len(bookmarks_data) = 3
    /\ Len(KeptOf(csv_filepaths[1])) = 2
    /\ bookmarks_data[1] = bookmarks_data[2]
    /\ bookmarks_data[3] # bookmarks_data[1]
    /\ written = html_output


\* C8 as stated: the document is the six preamble lines, one entry line per
\* entity and the closing line, with no other line between them.
C8_NoOtherLines ==
    Rendered =>
        LET ls == SplitLines(html_output)
            n == Len(bookmarks_data)
        IN  /\ Len(ls) = Len(PreambleLines) + n + 1
            /\ SubSeq(ls, 1, Len(PreambleLines)) = PreambleLines
            /\ \A k \in 1..n : IsEntryLine(ls[Len(PreambleLines) + k])
            /\ ls[Len(ls)] = ClosingLine

\* C8 amended: the document is the six preamble lines, then for every entity
\* an empty line and its entry line, then an empty line and the closing
\* line, which no newline follows.
C8_EntryPerLineWithBlankLines ==
    Rendered =>
        LET ls == SplitLines(html_output)
            n == Len(bookmarks_data)
            at(k) == Len(PreambleLines) + 2 * k
        IN  /\ Len(ls) = Len(PreambleLines) + 2 * n + 2
            /\ SubSeq(ls, 1, Len(PreambleLines)) = PreambleLines
            /\ \A k \in 1..n : ls[at(k) - 1] = <<>> /\ IsEntryLine(ls[at(k)])
            /\ ls[Len(ls) - 1] = <<>>
            /\ ls[Len(ls)] = ClosingLine

C8_Witness ==
    /\ WriteSucceeded
    /\ Len(bookmarks_data) = 2
    /\ Len(SplitLines(written)) = 12

Specials == {"&", "<", ">", "\"", "'"}
Entities == {EscapeChar(c) : c \in Specials}

\* C9: in the document every field is escaped once: of the five characters
\* only "&" stands in a rendered field, and only at the head of one of the
\* five entities, and unescaping the rendered field gives the field back.
C9_EscapedOnce ==
    Rendered =>
        LET entries == EntryLines(html_output)
        IN  /\ Len(entries) = Len(bookmarks_data)
            /\ \A k \in 1..Len(bookmarks_data) :
                  LET fields == Fields(entries[k])
                  IN  \A x \in TextFields :
                        LET v == bookmarks_data[k][x]
                            r == fields[x]
                        IN  v # None =>
                              /\ \A m \in 1..Len(r) : r[m] \notin Specials \ {"&"}
                              /\ \A m \in 1..Len(r) :
                                    r[m] = "&" =>
                                       \E e \in Entities :
                                          /\ m + Len(e) - 1 <= Len(r)
                                          /\ SubSeq(r, m, m + Len(e) - 1) = e
                              /\ Unescape(r) = v

C9_Witness ==
    /\ WriteSucceeded
    /\ \E k \in 1..Len(bookmarks_data) :
          /\ bookmarks_data[k].title = <<"<", "s", ">", "&", "\"", "'">>
          /\ bookmarks_data[k].url = <<"a", "&", "a", "m", "p", ";", "b">>
          /\ Fields(EntryLines(written)[k]).url
                = <<"a", "&", "a", "m", "p", ";", "a", "m", "p", ";", "b">>

\* C10: the processed count and the entity list move together, and when the
\* document is written the returned processed count is the number of its
\* entry lines.
C10_CountIsEntries ==
    /\ processed_count = Len(bookmarks_data)
    /\ WriteSucceeded => result[1] = Len(EntryLines(written))

C10_Witness ==
    /\ WriteSucceeded
    /\ result[1] = 2
    /\ \E k \in 1..Len(csv_filepaths) :
          FailsPartWay(csv_filepaths[k]) /\ Len(KeptOf(csv_filepaths[k])) = 1

====
